---- MODULE Spec2Model ----
(***************************************************************************)
(* A model of src/search.rs: the StrictEngine (an ordered map from bindle  *)
(* name to invoice, with index and query) and the pure helper              *)
(* version_compare.                                                        *)
(*                                                                         *)
(* Strings are sequences of one-character strings, so that ordering,       *)
(* equality and parsing are computed character by character.               *)
(***************************************************************************)
EXTENDS Integers, Sequences, FiniteSets, TLC

VARIABLES
    index,            \* StrictEngine.index: the BTreeMap, as its sorted entry list
    overflow_checks,  \* the build's integer-overflow mode (debug: TRUE, release: FALSE)
    op,               \* the call in progress (its name and arguments), or Idle
    ret,              \* what that call returned (or that it panicked)
    lastIndexed,      \* history: per name, the invoice of the latest index call
    superseded,       \* history: per name, the invoice the latest index call replaced
    arrival,          \* history: the names in the order they were first indexed
    calls             \* per thread of a concurrent host, the call it is in

vars ==
    <<index, overflow_checks, op, ret, lastIndexed, superseded, arrival, calls>>

----------------------------------------------------------------------------
(* Bounds of the model.                                                    *)

\* TLC's integers are 32 bits wide, so the u64 of the source is modelled by an
\* unsigned word of WordBits bits, still far wider than the u8 of `limit`.
WordBits == 20
\* Offsets 0..MaxOffset are tried, and the largest word besides.
MaxOffset == 1
\* Limits 0..MaxLimit are tried, and the largest u8 besides.
MaxLimit == 1

\* SearchOptions.limit is a u8.
U8Max == 255

U64Max == 2^WordBits - 1
U64Modulus == 2^WordBits

----------------------------------------------------------------------------
(* Strings.                                                                *)

\* The characters the model uses, in ascending byte order.
Alphabet ==
    << " ", "%", "&", "*", ".", "0", "1", "2", "3", "9",
       "<", "=", ">", "A", "^", "a", "~" >>

Ord(c) == CHOOSE i \in 1..Len(Alphabet) : Alphabet[i] = c

Digits == {"0", "1", "2", "3", "9"}

DigitVal(c) == CASE c = "0" -> 0 [] c = "1" -> 1 [] c = "2" -> 2
                 [] c = "3" -> 3 [] c = "9" -> 9

\* str's Ord: byte-wise lexicographic order, a proper prefix first.
RECURSIVE StrLess(_, _)
StrLess(s, t) ==
    IF t = <<>> THEN FALSE
    ELSE IF s = <<>> THEN TRUE
    ELSE IF Ord(Head(s)) # Ord(Head(t)) THEN Ord(Head(s)) < Ord(Head(t))
    ELSE StrLess(Tail(s), Tail(t))

\* str::split(sep): the pieces between the separators (one piece for "").
RECURSIVE Split(_, _)
Split(s, sep) ==
    IF \A i \in 1..Len(s) : s[i] # sep THEN <<s>>
    ELSE LET k == CHOOSE i \in 1..Len(s) :
                    s[i] = sep /\ \A j \in 1..(i - 1) : s[j] # sep
         IN  <<SubSeq(s, 1, k - 1)>> \o Split(SubSeq(s, k + 1, Len(s)), sep)

RECURSIVE TrimStart(_)
TrimStart(s) == IF s # <<>> /\ Head(s) = " " THEN TrimStart(Tail(s)) ELSE s

----------------------------------------------------------------------------
(* The semver crate, as far as version_compare uses it.                    *)

\* A numeric identifier: digits, without a leading zero.
IsNumeric(s) ==
    /\ Len(s) >= 1
    /\ \A i \in 1..Len(s) : s[i] \in Digits
    /\ Len(s) > 1 => s[1] # "0"

RECURSIVE NumVal(_)
NumVal(s) ==
    IF s = <<>> THEN 0
    ELSE 10 * NumVal(SubSeq(s, 1, Len(s) - 1)) + DigitVal(s[Len(s)])

ParseErr == [ok |-> FALSE]

\* Version::parse: major.minor.patch, each numeric (no pre-release or build
\* metadata in the strings of this model).
Version_parse(s) ==
    LET parts == Split(s, ".")
    IN  IF Len(parts) = 3 /\ \A i \in 1..3 : IsNumeric(parts[i])
        THEN [ok |-> TRUE, major |-> NumVal(parts[1]),
              minor |-> NumVal(parts[2]), patch |-> NumVal(parts[3])]
        ELSE ParseErr

\* The operator a requirement starts with, and what follows it.
ReqOp(s) ==
    IF Len(s) >= 2 /\ s[1] = ">" /\ s[2] = "=" THEN <<"GtEq", SubSeq(s, 3, Len(s))>>
    ELSE IF Len(s) >= 2 /\ s[1] = "<" /\ s[2] = "=" THEN <<"LtEq", SubSeq(s, 3, Len(s))>>
    ELSE IF Len(s) >= 1 /\ s[1] = "=" THEN <<"Ex", Tail(s)>>
    ELSE IF Len(s) >= 1 /\ s[1] = ">" THEN <<"Gt", Tail(s)>>
    ELSE IF Len(s) >= 1 /\ s[1] = "<" THEN <<"Lt", Tail(s)>>
    ELSE IF Len(s) >= 1 /\ s[1] = "~" THEN <<"Tilde", Tail(s)>>
    ELSE IF Len(s) >= 1 /\ s[1] = "^" THEN <<"Compatible", Tail(s)>>
    ELSE <<"Compatible", s>>

\* VersionReq::parse, for a single comparator: an optional operator (caret when
\* absent), optional blanks, then major[.minor[.patch]]. "" and "*" accept any
\* version. An absent minor or patch is -1.
VersionReq_parse(s) ==
    IF s = <<>> \/ s = <<"*">> THEN [ok |-> TRUE, op |-> "Any"]
    ELSE LET o     == ReqOp(TrimStart(s))
             parts == Split(TrimStart(o[2]), ".")
             n     == Len(parts)
         IN  IF n \in 1..3 /\ \A i \in 1..n : IsNumeric(parts[i])
             THEN [ok |-> TRUE, op |-> o[1],
                   major |-> NumVal(parts[1]),
                   minor |-> IF n >= 2 THEN NumVal(parts[2]) ELSE -1,
                   patch |-> IF n >= 3 THEN NumVal(parts[3]) ELSE -1]
             ELSE ParseErr

ReqExact(r, v) ==
    /\ v.major = r.major
    /\ r.minor # -1 => v.minor = r.minor
    /\ (r.minor # -1 /\ r.patch # -1) => v.patch = r.patch

ReqGreater(r, v) ==
    IF v.major # r.major THEN v.major > r.major
    ELSE IF r.minor = -1 THEN FALSE
    ELSE IF v.minor # r.minor THEN v.minor > r.minor
    ELSE IF r.patch = -1 THEN FALSE
    ELSE v.patch > r.patch

ReqTilde(r, v) ==
    /\ v.major = r.major
    /\ r.minor # -1 => v.minor = r.minor
    /\ (r.minor # -1 /\ r.patch # -1) => v.patch >= r.patch

ReqCompatible(r, v) ==
    IF v.major # r.major THEN FALSE
    ELSE IF r.minor = -1 THEN TRUE
    ELSE IF r.patch = -1
         THEN IF r.major = 0 THEN v.minor = r.minor ELSE v.minor >= r.minor
    ELSE IF r.major = 0
         THEN IF r.minor = 0 THEN v.minor = 0 /\ v.patch = r.patch
              ELSE v.minor = r.minor /\ v.patch >= r.patch
    ELSE v.minor > r.minor \/ (v.minor = r.minor /\ v.patch >= r.patch)

\* VersionReq::matches
VersionReq_matches(r, v) ==
    CASE r.op = "Any"        -> TRUE
      [] r.op = "Ex"         -> ReqExact(r, v)
      [] r.op = "Gt"         -> ReqGreater(r, v)
      [] r.op = "GtEq"       -> ReqExact(r, v) \/ ReqGreater(r, v)
      [] r.op = "Lt"         -> ~ReqExact(r, v) /\ ~ReqGreater(r, v)
      [] r.op = "LtEq"       -> ~ReqGreater(r, v)
      [] r.op = "Tilde"      -> ReqTilde(r, v)
      [] r.op = "Compatible" -> ReqCompatible(r, v)

----------------------------------------------------------------------------
(* version_compare                                                         *)

\* A slip: the version is parsed before the requirement is looked at.
version_compare_VersionFirst(version, requirement) ==
    LET ver == Version_parse(version)
    IN  IF ~ver.ok THEN FALSE
        ELSE IF requirement = <<>> THEN TRUE
        ELSE LET req == VersionReq_parse(requirement)
             IN  req.ok /\ VersionReq_matches(req, ver)

\* A slip: a requirement that does not parse is taken for no requirement.
version_compare_BadReqMatches(version, requirement) ==
    LET req == VersionReq_parse(requirement)
    IN  IF requirement = <<>> \/ ~req.ok THEN TRUE
        ELSE LET ver == Version_parse(version)
             IN  IF ver.ok THEN VersionReq_matches(req, ver) ELSE FALSE

version_compare(version, requirement) ==
    IF requirement = <<>> THEN TRUE
    ELSE LET req == VersionReq_parse(requirement)
         IN  IF req.ok
             THEN LET ver == Version_parse(version)
                  IN  IF ver.ok THEN VersionReq_matches(req, ver) ELSE FALSE
             ELSE FALSE

----------------------------------------------------------------------------
(* The values the operations are tried on.                                 *)

S_a  == <<"a">>
S_a2 == <<"a", "2">>
S_A  == <<"A">>

S_empty == <<>>
S_1_2_3 == <<"1", ".", "2", ".", "3">>
S_2_0_0 == <<"2", ".", "0", ".", "0">>
S_junk  == <<"%", "^", "&", "%", "^", "&", "%">>

\* Bindle names that get indexed; S_A is queried for and never stored.
Names == {S_a, S_a2}
Terms == Names \cup {S_A}

\* Invoice.bindle.version of the invoices that get indexed.
Versions == {S_1_2_3, S_2_0_0}

\* Invoice.yanked is an Option<bool>.
YankedValues == {"None", "Some(true)"}

\* crate::Invoice, reduced to the fields search.rs reads or that tell two
\* invoices apart.
Invoices == [name : Names, version : Versions, yanked : YankedValues]

\* Filters handed to query: none, an exact pin, a range no indexed version is
\* in, and one that does not parse.
Filters ==
    { S_empty,
      <<"=", " ">> \o S_1_2_3,
      <<"9">>,
      S_junk }

\* Versions and requirements handed to version_compare directly.
CompareVersions ==
    { S_empty, S_junk, S_1_2_3, S_2_0_0,
      <<"1", ".", "2">>, <<"0", "1", ".", "2", ".", "3">>,
      <<"0", ".", "0", ".", "3">> }

CompareRequirements ==
    Filters \cup
    { S_1_2_3, <<"^", "1", ".", "1">>, <<"~", "1", ".", "2">>, <<"2">>, <<"^", "1">>,
      <<">", "=", " ", "2">>, <<"<", "2", ".", "0", ".", "0">>,
      <<"^", "0", ".", "0", ".", "3">>, <<"1", ".", ".", "3">> }

Offsets == (0..MaxOffset) \cup {U64Max}
Limits  == (0..MaxLimit) \cup {U8Max}

\* SearchOptions. `strict` is left at its default: the strict engine does not
\* read it and overwrites its echo.
SearchOptions ==
    [offset : Offsets, limit : Limits, strict : {FALSE}, yanked : BOOLEAN]

----------------------------------------------------------------------------
(* The index: a BTreeMap<String, Invoice>, as the list of its entries in   *)
(* ascending key order.                                                    *)

Entry(k, v) == [key |-> k, value |-> v]

\* A slip: a map that keeps insertion order; a new key goes to the end.
BTreeMap_insert_Unordered(m, k, v) ==
    IF \E i \in 1..Len(m) : m[i].key = k
    THEN [i \in 1..Len(m) |-> IF m[i].key = k THEN Entry(k, v) ELSE m[i]]
    ELSE Append(m, Entry(k, v))

\* BTreeMap::insert: the value of a key already present is replaced, a new key
\* goes to its place in the order.
BTreeMap_insert(m, k, v) ==
    IF \E i \in 1..Len(m) : m[i].key = k
    THEN [i \in 1..Len(m) |-> IF m[i].key = k THEN Entry(k, v) ELSE m[i]]
    ELSE LET pos == Cardinality({i \in 1..Len(m) : StrLess(m[i].key, k)})
         IN  SubSeq(m, 1, pos) \o <<Entry(k, v)>> \o SubSeq(m, pos + 1, Len(m))

\* BTreeMap::get, as the set of values under the key (one or none).
BTreeMap_get(m, k) == {m[i].value : i \in {j \in 1..Len(m) : m[j].key = k}}

----------------------------------------------------------------------------
(* StrictEngine::query                                                     *)

\* Matches::new: the options are echoed, the rest are defaults.
Matches_new(opts) ==
    [strict |-> opts.strict, offset |-> opts.offset, limit |-> opts.limit,
     yanked |-> opts.yanked, invoices |-> <<>>, more |-> FALSE, total |-> 0]

Panic == [status |-> "panic"]
Ok(v) == [status |-> "Ok", value |-> v]

\* A slip: the term is matched as a prefix of the key, not as the whole key.
KeyMatches_Prefix(key, term) ==
    Len(term) <= Len(key) /\ SubSeq(key, 1, Len(term)) = term

\* `*key == &term`: the key is the term, character for character.
KeyMatches(key, term) == key = term

\* A slip: invoices marked yanked are left out of the matches.
found_SkipYanked(idx, term, filter) ==
    LET pass == SelectSeq(idx, LAMBDA e :
                    KeyMatches(e.key, term)
                    /\ version_compare(e.value.version, filter)
                    /\ e.value.yanked # "Some(true)")
    IN  [i \in 1..Len(pass) |-> pass[i].value]

\* A slip: the version filter is left out of the closure.
found_NoVersionFilter(idx, term, filter) ==
    LET pass == SelectSeq(idx, LAMBDA e : KeyMatches(e.key, term))
    IN  [i \in 1..Len(pass) |-> pass[i].value]

\* The iterator chain: the entries in key order, filtered by key and version,
\* their values cloned and collected.
found(idx, term, filter) ==
    LET pass == SelectSeq(idx, LAMBDA e :
                    KeyMatches(e.key, term)
                    /\ version_compare(e.value.version, filter))
    IN  [i \in 1..Len(pass) |-> pass[i].value]

\* A slip: the early return for an offset past the end is taken on > only.
PastEnd_Off(offset, total) == offset > total

\* `matches.offset >= matches.total`
PastEnd(offset, total) == offset >= total

\* u64 `+` and `-`: where the result leaves the range, a build that checks
\* overflow panics and one that does not keeps the wrapped word.
u64_add(a, b, checks) ==
    IF a + b > U64Max
    THEN IF checks THEN Panic ELSE Ok(a + b - U64Modulus)
    ELSE Ok(a + b)

u64_sub(a, b, checks) ==
    IF a < b
    THEN IF checks THEN Panic ELSE Ok(a - b + U64Modulus)
    ELSE Ok(a - b)

\* `matches.offset + matches.limit as u64 - 1`
last_index_raw(offset, limit, checks) ==
    LET sum == u64_add(offset, limit, checks)
    IN  IF sum.status = "panic" THEN Panic ELSE u64_sub(sum.value, 1, checks)

\* `if last_index >= matches.total { last_index = matches.total - 1; }`
last_index_clamped(raw, total, checks) ==
    IF raw >= total THEN u64_sub(total, 1, checks) ELSE Ok(raw)

\* found.drain(RangeInclusive::new(start, end)).collect(): the elements at the
\* (0-based) indices start..=end. It panics in every build when end is the
\* largest index value, when start is past end + 1 and when end is past the
\* last element.
drain(list, start, end) ==
    IF end = U64Max \/ start > end + 1 \/ end + 1 > Len(list)
    THEN Panic
    ELSE Ok(SubSeq(list, start + 1, end + 1))

\* Lines 144-154: the offset and the limit applied to the matches found.
paginate(matches, list, checks) ==
    LET raw == last_index_raw(matches.offset, matches.limit, checks)
    IN  IF raw.status = "panic" THEN Panic
        ELSE
        LET last_index == last_index_clamped(raw.value, matches.total, checks)
        IN  IF last_index.status = "panic" THEN Panic
            ELSE
            LET next == u64_add(last_index.value, 1, checks)
            IN  IF next.status = "panic" THEN Panic
                ELSE
                LET taken == drain(list, matches.offset, last_index.value)
                IN  IF taken.status = "panic" THEN Panic
                    ELSE Ok([matches EXCEPT
                               !.more = matches.total > next.value,
                               !.invoices = taken.value])

\* A slip: `matches.yanked = false` is left out, so the option is echoed.
query_EchoYanked(idx, term, filter, options, checks) ==
    LET list    == found(idx, term, filter)
        matches == [Matches_new(options) EXCEPT
                      !.strict = TRUE, !.total = Len(list)]
    IN  IF PastEnd(matches.offset, matches.total)
        THEN Ok([matches EXCEPT !.more = FALSE])
        ELSE paginate(matches, list, checks)

\* StrictEngine::query
query(idx, term, filter, options, checks) ==
    LET list    == found(idx, term, filter)
        matches == [Matches_new(options) EXCEPT
                      !.strict = TRUE, !.yanked = FALSE, !.total = Len(list)]
    IN  IF PastEnd(matches.offset, matches.total)
        THEN Ok([matches EXCEPT !.more = FALSE])
        ELSE paginate(matches, list, checks)

----------------------------------------------------------------------------
(* StrictEngine::index                                                     *)

\* A slip: entry(name).or_insert(invoice), which keeps an invoice already there.
StrictEngine_index_KeepOld(idx, invoice) ==
    IF BTreeMap_get(idx, invoice.name) # {}
    THEN idx
    ELSE BTreeMap_insert(idx, invoice.name, invoice)

\* A slip: the map is keyed by name and version, so a new version of a name is
\* added next to the old one.
StrictEngine_index_PerVersion(idx, invoice) ==
    IF \E i \in 1..Len(idx) : idx[i].value = invoice
    THEN idx
    ELSE LET pos == Cardinality({i \in 1..Len(idx) :
                        ~StrLess(invoice.name, idx[i].key)})
         IN  SubSeq(idx, 1, pos) \o <<Entry(invoice.name, invoice)>>
                \o SubSeq(idx, pos + 1, Len(idx))

\* A slip: the index is a list the invoice is pushed onto at its place in the
\* order, whatever is there already.
StrictEngine_index_Push(idx, invoice) ==
    LET pos == Cardinality({i \in 1..Len(idx) :
                   ~StrLess(invoice.name, idx[i].key)})
    IN  SubSeq(idx, 1, pos) \o <<Entry(invoice.name, invoice)>>
           \o SubSeq(idx, pos + 1, Len(idx))

\* A slip: the write is buffered and has not reached the map when index returns.
StrictEngine_index_Buffered(idx, invoice) == idx

\* A slip: the map is rebuilt from the one invoice.
StrictEngine_index_Only(idx, invoice) ==
    BTreeMap_insert(<<>>, invoice.name, invoice)

\* A slip: the key is the invoice's version, not its name.
StrictEngine_index_ByVersion(idx, invoice) ==
    BTreeMap_insert(idx, invoice.version, invoice)

\* self.index.insert(invoice.bindle.name.clone(), (*invoice).clone())
StrictEngine_index(idx, invoice) ==
    BTreeMap_insert(idx, invoice.name, invoice)

----------------------------------------------------------------------------
(* The state machine: a host that makes one call at a time on one engine.  *)

Idle == [kind |-> "idle"]

\* The threads of a host that shares one engine among them.
Threads == {"t1", "t2"}
NoRet == [status |-> "none"]
NoInvoice == [name |-> <<>>, version |-> <<>>, yanked |-> "-"]

\* StrictEngine::default() in a build of either overflow mode.
Init ==
    /\ index = <<>>
    /\ overflow_checks \in BOOLEAN
    /\ op = Idle
    /\ ret = NoRet
    /\ lastIndexed = [n \in Names |-> NoInvoice]
    /\ superseded = [n \in Names |-> NoInvoice]
    /\ arrival = <<>>
    /\ calls = [t \in Threads |-> Idle]

Index(document) ==
    /\ op = Idle
    /\ index' = StrictEngine_index(index, document)
    /\ op' = [kind |-> "index", document |-> document]
    /\ ret' = Ok(<<>>)
    /\ lastIndexed' = [lastIndexed EXCEPT ![document.name] = document]
    /\ superseded' =
         [superseded EXCEPT ![document.name] =
            IF /\ lastIndexed[document.name] # NoInvoice
               /\ lastIndexed[document.name].version # document.version
            THEN lastIndexed[document.name]
            ELSE NoInvoice]
    /\ arrival' = IF lastIndexed[document.name] = NoInvoice
                  THEN Append(arrival, document.name)
                  ELSE arrival
    /\ UNCHANGED <<overflow_checks, calls>>

Query(term, filter, options) ==
    /\ op = Idle
    /\ op' = [kind |-> "query", term |-> term, filter |-> filter,
              options |-> options]
    /\ ret' = query(index, term, filter, options, overflow_checks)
    /\ UNCHANGED <<index, overflow_checks, lastIndexed, superseded, arrival,
                   calls>>

VersionCompare(version, requirement) ==
    /\ op = Idle
    /\ op' = [kind |-> "version_compare", version |-> version,
              requirement |-> requirement]
    /\ ret' = Ok(version_compare(version, requirement))
    /\ UNCHANGED <<index, overflow_checks, lastIndexed, superseded, arrival,
                   calls>>

\* The call ends: the caller has its result (or the panic has unwound) and the
\* host is free to make the next call.
Return ==
    /\ op # Idle
    /\ op' = Idle
    /\ ret' = NoRet
    /\ UNCHANGED <<index, overflow_checks, lastIndexed, superseded, arrival,
                   calls>>

Next ==
    \/ \E document \in Invoices : Index(document)
    \/ \E term \in Terms, filter \in Filters, options \in SearchOptions :
          Query(term, filter, options)
    \/ \E version \in CompareVersions, requirement \in CompareRequirements :
          VersionCompare(version, requirement)
    \/ Return

Spec == Init /\ [][Next]_vars

----------------------------------------------------------------------------
(* What the properties below speak about.                                  *)

\* A query has returned (it did not panic), and `ret.value` is its Matches.
QueryReturned == op.kind = "query" /\ ret.status = "Ok"

\* The records stored under a name, read off the records themselves.
Stored(name) ==
    {index[i].value : i \in {j \in 1..Len(index) : index[j].value.name = name}}

\* The places of the store whose record has the name `term` and a version the
\* filter accepts.
Candidates(term, filter) ==
    {i \in 1..Len(index) :
        /\ index[i].value.name = term
        /\ version_compare(index[i].value.version, filter)}

SeqRange(q) == {q[i] : i \in 1..Len(q)}

----------------------------------------------------------------------------
\* C1: the store holds at most one record per name, and for every name ever
\* indexed the stored record is the one of the most recent index call with that
\* name (last write wins, nothing is appended).
C1_LastWriteWins ==
    /\ \A i, j \in 1..Len(index) :
          i # j => index[i].value.name # index[j].value.name
    /\ \A n \in Names :
          lastIndexed[n] # NoInvoice => Stored(n) = {lastIndexed[n]}

\* A name has been indexed twice, with two different versions, and a second
\* name is in the store as well.
C1_Witness ==
    /\ op.kind = "index"
    /\ superseded[op.document.name] # NoInvoice
    /\ Len(index) = 2

\* C2: a query's total is the number of stored records whose name is the term
\* and whose version version_compare accepts for the filter; no record of
\* another name or of a rejected version is among the invoices returned.
C2_TotalCountsCandidates ==
    QueryReturned =>
        /\ ret.value.total = Cardinality(Candidates(op.term, op.filter))
        /\ \A inv \in SeqRange(ret.value.invoices) :
              /\ inv.name = op.term
              /\ version_compare(inv.version, op.filter)

\* Two names are stored; a query with a filter that is not empty found the one
\* record of its term and returned it.
C2_Witness ==
    /\ QueryReturned
    /\ Len(index) = 2
    /\ op.filter # <<>>
    /\ ret.value.total = 1
    /\ Len(ret.value.invoices) = 1
    /\ \E i \in 1..Len(index) :
          ~version_compare(index[i].value.version, op.filter)

\* C3, as stated: after index(r1) and index(r2) of one name with different
\* versions, every later query for the name that returns has r2 as its
\* invoices when the filter accepts r2's version, and none when it does not.
C3_AsStated ==
    (QueryReturned /\ op.term \in Names /\ superseded[op.term] # NoInvoice) =>
        LET r2 == lastIndexed[op.term]
        IN  ret.value.invoices =
               IF version_compare(r2.version, op.filter) THEN <<r2>> ELSE <<>>

\* C3, amended: after index(r1) and index(r2) of one name with different
\* versions the store holds only r2 for the name, and every later query for the
\* name that returns counts r2 (total = 1) exactly when the filter accepts r2's
\* version, returns no invoice other than r2 (so never r1, also when the filter
\* accepts r1's version), returns nothing when the filter rejects r2's version,
\* and returns r2 when the filter accepts it and offset = 0 and limit >= 1.
C3_UpdateReplaces ==
    \A n \in Names :
        superseded[n] # NoInvoice =>
            LET r1 == superseded[n]
                r2 == lastIndexed[n]
                accepted == version_compare(r2.version, op.filter)
            IN  /\ Stored(n) = {r2}
                /\ BTreeMap_get(index, n) = {r2}
                /\ (QueryReturned /\ op.term = n) =>
                      /\ ret.value.total = IF accepted THEN 1 ELSE 0
                      /\ SeqRange(ret.value.invoices) \subseteq {r2}
                      /\ r1 \notin SeqRange(ret.value.invoices)
                      /\ ~accepted => ret.value.invoices = <<>>
                      /\ (accepted /\ op.options.offset = 0
                            /\ op.options.limit >= 1)
                            => ret.value.invoices = <<r2>>

\* A query for a twice-indexed name, with a filter that accepts the replaced
\* version and rejects the current one, has returned.
C3_Witness ==
    /\ QueryReturned
    /\ op.term \in Names
    /\ superseded[op.term] # NoInvoice
    /\ version_compare(superseded[op.term].version, op.filter)
    /\ ~version_compare(lastIndexed[op.term].version, op.filter)
    /\ op.options.offset = 0
    /\ op.options.limit >= 1

\* C4: indexing is idempotent: once index(r) has returned, index(r) again
\* leaves the store as it is (same size, same entries) and every query (any
\* term, filter and options) returns what it returned before.
C4_IndexIdempotent ==
    op.kind = "index" =>
        LET again == StrictEngine_index(index, op.document)
        IN  /\ Len(again) = Len(index)
            /\ again = index
            /\ \A term \in Terms, filter \in Filters, options \in SearchOptions :
                  query(again, term, filter, options, overflow_checks)
                     = query(index, term, filter, options, overflow_checks)

\* index(r) has returned on a store that holds r and another name's record.
C4_Witness ==
    /\ op.kind = "index"
    /\ Len(index) = 2
    /\ op.document \in Stored(op.document.name)

\* The smaller of two numbers.
Min(a, b) == IF a <= b THEN a ELSE b

\* C5: in every query result, more is true exactly when total > offset + limit.
C5_MoreIffRemaining ==
    QueryReturned =>
        (ret.value.more <=>
            ret.value.total > op.options.offset + op.options.limit)

\* C6: a query that returns has at most `limit` invoices, for every limit
\* (0 included) and every offset.
C6_AtMostLimit ==
    QueryReturned => Len(ret.value.invoices) <= op.options.limit

\* C7: when offset < total, the invoices are the matches (in store order) at
\* the indices offset .. min(offset + limit - 1, total - 1): total - offset of
\* them with more = false when offset + limit >= total, otherwise limit of them
\* with more = true.
C7_PageOfMatches ==
    (QueryReturned /\ op.options.offset < ret.value.total) =>
        LET list   == found(index, op.term, op.filter)
            total  == ret.value.total
            offset == op.options.offset
            limit  == op.options.limit
        IN  /\ ret.value.invoices =
                  SubSeq(list, offset + 1, Min(offset + limit, total))
            /\ IF offset + limit >= total
               THEN Len(ret.value.invoices) = total - offset
                    /\ ~ret.value.more
               ELSE Len(ret.value.invoices) = limit /\ ret.value.more

\* C8: when offset >= total (an empty store and a term that names nothing
\* included) query returns success with no invoices, more = false, total the
\* number of matches, and the offset and limit of the options.
C8_PastEndIsEmptySuccess ==
    (op.kind = "query"
        /\ op.options.offset >= Cardinality(Candidates(op.term, op.filter))) =>
        /\ ret.status = "Ok"
        /\ ret.value.invoices = <<>>
        /\ ret.value.more = FALSE
        /\ ret.value.total = Cardinality(Candidates(op.term, op.filter))
        /\ ret.value.offset = op.options.offset
        /\ ret.value.limit = op.options.limit

\* A query whose offset is the number of its matches, one, has returned.
C8_Witness ==
    /\ QueryReturned
    /\ Cardinality(Candidates(op.term, op.filter)) = 1
    /\ op.options.offset = 1

C10_VersionCompareReference ==
    op.kind = "version_compare" =>
        ret.value =
            IF op.requirement = <<>> THEN TRUE
            ELSE IF ~VersionReq_parse(op.requirement).ok THEN FALSE
            ELSE IF ~Version_parse(op.version).ok THEN FALSE
            ELSE VersionReq_matches(VersionReq_parse(op.requirement),
                                    Version_parse(op.version))

\* version_compare has accepted a version that does not parse, the requirement
\* being empty.
C10_Witness ==
    /\ op.kind = "version_compare"
    /\ op.requirement = <<>>
    /\ ~Version_parse(op.version).ok
    /\ ret.value = TRUE

----------------------------------------------------------------------------
C12_IndexVisibleAtOnce ==
    op.kind = "index" =>
        \A filter \in Filters, options \in SearchOptions :
            (/\ version_compare(op.document.version, filter)
             /\ options.offset = 0
             /\ options.limit >= 1) =>
                LET next == query(index, op.document.name, filter, options,
                                  overflow_checks)
                IN  /\ next.status = "Ok"
                    /\ next.value.total = 1
                    /\ next.value.invoices = <<op.document>>

\* index(r) has returned, r replacing an invoice of another version.
C12_Witness ==
    /\ op.kind = "index"
    /\ superseded[op.document.name] # NoInvoice
    /\ \E filter \in Filters :
          /\ filter # <<>>
          /\ version_compare(op.document.version, filter)

\* The store that holds, in ascending order of name, the latest invoice of each
\* name indexed so far.
Canonical(latest) ==
    LET present == {n \in Names : latest[n] # NoInvoice}
        rank(n) == 1 + Cardinality({m \in present : StrLess(m, n)})
    IN  [i \in 1..Cardinality(present) |->
            LET n == CHOOSE m \in present : rank(m) = i
            IN  Entry(n, latest[n])]

\* C13: queries are deterministic: the store is the latest invoice of each
\* name in ascending order of name, whatever order the names arrived in, and a
\* query's result is the one its term, filter and options give on that store;
\* so two equal queries on an unchanged store return the same total, more and
\* invoices.
C13_QueriesDeterministic ==
    /\ index = Canonical(lastIndexed)
    /\ op.kind = "query" =>
          ret = query(Canonical(lastIndexed), op.term, op.filter, op.options,
                      overflow_checks)

\* A query has returned a record from a store whose names arrived in
\* descending order.
C13_Witness ==
    /\ QueryReturned
    /\ arrival = <<S_a2, S_a>>
    /\ Len(ret.value.invoices) = 1

\* The names that have a record in a store.
NamesIn(idx) == {idx[i].value.name : i \in 1..Len(idx)}

\* C15: no operation removes a record: no step makes the set of stored names
\* smaller, and every name indexed so far is in the store.
C15_NeverRemoved ==
    [][/\ NamesIn(index) \subseteq NamesIn(index')
       /\ \A n \in Names : lastIndexed'[n] # NoInvoice => n \in NamesIn(index')
      ]_vars

\* A second name has been indexed, the first one still being stored.
C15_Witness ==
    /\ op.kind = "index"
    /\ arrival = <<S_a2, S_a>>
    /\ op.document.name = S_a
    /\ NamesIn(index) = {S_a, S_a2}

\* C16: where offset < total, offset + limit - 1 and last_index + 1 stay
\* within the unsigned 64-bit range, for every offset and every limit
\* (limit = 0 with offset = 0 included): evaluated with overflow checks,
\* neither panics.
C16_ArithmeticInRange ==
    (op.kind = "query"
        /\ op.options.offset < Len(found(index, op.term, op.filter))) =>
        LET total == Len(found(index, op.term, op.filter))
            raw   == last_index_raw(op.options.offset, op.options.limit, TRUE)
        IN  /\ raw.status = "Ok"
            /\ last_index_clamped(raw.value, total, TRUE).status = "Ok"
            /\ u64_add(last_index_clamped(raw.value, total, TRUE).value,
                       1, TRUE).status = "Ok"

\* The same store without any yanked mark.
Unmarked(idx) ==
    [i \in 1..Len(idx) |-> [idx[i] EXCEPT !.value.yanked = "None"]]

C18_AtMostOneMatch ==
    QueryReturned =>
        /\ ret.value.total \in {0, 1}
        /\ op.options.limit >= 1 =>
              /\ ret.value.more = FALSE
              /\ Len(ret.value.invoices) <= 1

\* A query for a name that is a prefix of another stored name has returned its
\* one match.
C18_Witness ==
    /\ QueryReturned
    /\ NamesIn(index) = {S_a, S_a2}
    /\ op.term = S_a
    /\ op.options.limit >= 1
    /\ ret.value.total = 1
    /\ Len(ret.value.invoices) = 1

\* C19: index(r) changes only the entry of r's name and leaves the records of
\* every other name as they are; query changes no entry of the store, whatever
\* its term, filter and options and whichever branch it takes.
C19_Frame ==
    [][/\ op'.kind = "index" =>
             \A n \in Names \ {op'.document.name} : Stored(n)' = Stored(n)
       /\ op'.kind = "query" => index' = index
      ]_vars

\* index(r) has returned on a store that holds a record of another name.
C19_WitnessIndex ==
    /\ op.kind = "index"
    /\ Stored(op.document.name) = {op.document}
    /\ \E n \in Names \ {op.document.name} : Stored(n) # {}

----------------------------------------------------------------------------
(* A concurrent host: threads that share the one engine, each call taking  *)
(* the borrow its receiver asks for (`&self` for query, `&mut self` for    *)
(* index) from its first step to its last. A query scans the map entry by  *)
(* entry; an index call changes the map in its last step.                  *)

\* Queries the threads make.
ConcurrentFilters == {S_empty, <<"=", " ">> \o S_1_2_3}
ConcurrentOptions ==
    {o \in SearchOptions :
        o.offset \in {0, 1} /\ o.limit = 1 /\ ~o.strict /\ ~o.yanked}

\* Invoices the threads index.
ConcurrentInvoices == {d \in Invoices : d.yanked = "None"}

\* A slip: index takes `&self` (the map behind a cell), so nothing is asked
\* of the other threads.
ExclusiveBorrowFree_Unchecked(t) == TRUE

\* `&mut self`: the call can start when no other thread is in a call that
\* borrows the engine.
ExclusiveBorrowFree(t) ==
    \A u \in Threads \ {t} : calls[u].kind \notin {"query", "index"}

\* `&self`: the call can start when no other thread holds the engine mutably.
SharedBorrowFree(t) ==
    \A u \in Threads \ {t} : calls[u].kind # "index"

\* Lines 133-154: the Matches made of the list the scan collected.
query_after_scan(list, options, checks) ==
    LET matches == [Matches_new(options) EXCEPT
                      !.strict = TRUE, !.yanked = FALSE, !.total = Len(list)]
    IN  IF PastEnd(matches.offset, matches.total)
        THEN Ok([matches EXCEPT !.more = FALSE])
        ELSE paginate(matches, list, checks)

ConcurrentInit ==
    /\ index = <<>>
    /\ overflow_checks \in BOOLEAN
    /\ op = Idle
    /\ ret = NoRet
    /\ lastIndexed = [n \in Names |-> NoInvoice]
    /\ superseded = [n \in Names |-> NoInvoice]
    /\ arrival = <<>>
    /\ calls = [t \in Threads |-> Idle]

\* query is entered: the iterator stands before the first entry. `snapshot`
\* is history: the store as the call found it.
QueryBegin(t, term, filter, options) ==
    /\ calls[t] = Idle
    /\ SharedBorrowFree(t)
    /\ calls' = [calls EXCEPT ![t] =
                   [kind |-> "query", term |-> term, filter |-> filter,
                    options |-> options, pos |-> 0, list |-> <<>>,
                    snapshot |-> index]]
    /\ UNCHANGED <<index, overflow_checks, op, ret, lastIndexed, superseded,
                   arrival>>

\* The iterator yields the next entry; the closure keeps or drops it.
QueryScan(t) ==
    /\ calls[t].kind = "query"
    /\ calls[t].pos < Len(index)
    /\ LET e == index[calls[t].pos + 1]
       IN  calls' = [calls EXCEPT
                       ![t].pos = @ + 1,
                       ![t].list =
                           IF /\ KeyMatches(e.key, calls[t].term)
                              /\ version_compare(e.value.version, calls[t].filter)
                           THEN Append(@, e.value)
                           ELSE @]
    /\ UNCHANGED <<index, overflow_checks, op, ret, lastIndexed, superseded,
                   arrival>>

\* The iterator is exhausted: the Matches are made and query returns.
QueryFinish(t) ==
    /\ calls[t].kind = "query"
    /\ calls[t].pos >= Len(index)
    /\ calls' = [calls EXCEPT ![t] =
                   [kind |-> "returned", of |-> "query",
                    term |-> calls[t].term, filter |-> calls[t].filter,
                    options |-> calls[t].options,
                    snapshot |-> calls[t].snapshot,
                    result |-> query_after_scan(calls[t].list, calls[t].options,
                                                overflow_checks)]]
    /\ UNCHANGED <<index, overflow_checks, op, ret, lastIndexed, superseded,
                   arrival>>

\* index is entered.
IndexBegin(t, document) ==
    /\ calls[t] = Idle
    /\ ExclusiveBorrowFree(t)
    /\ calls' = [calls EXCEPT ![t] = [kind |-> "index", document |-> document]]
    /\ UNCHANGED <<index, overflow_checks, op, ret, lastIndexed, superseded,
                   arrival>>

\* The insert is done and index returns.
IndexEnd(t) ==
    /\ calls[t].kind = "index"
    /\ LET document == calls[t].document
       IN  /\ index' = StrictEngine_index(index, document)
           /\ lastIndexed' = [lastIndexed EXCEPT ![document.name] = document]
           /\ superseded' =
                [superseded EXCEPT ![document.name] =
                   IF /\ lastIndexed[document.name] # NoInvoice
                      /\ lastIndexed[document.name].version # document.version
                   THEN lastIndexed[document.name]
                   ELSE NoInvoice]
           /\ arrival' = IF lastIndexed[document.name] = NoInvoice
                         THEN Append(arrival, document.name)
                         ELSE arrival
           /\ calls' = [calls EXCEPT ![t] =
                          [kind |-> "returned", of |-> "index",
                           document |-> document, result |-> Ok(<<>>)]]
    /\ UNCHANGED <<overflow_checks, op, ret>>

\* The thread has its result and is free to make its next call.
ThreadReturn(t) ==
    /\ calls[t].kind = "returned"
    /\ calls' = [calls EXCEPT ![t] = Idle]
    /\ UNCHANGED <<index, overflow_checks, op, ret, lastIndexed, superseded,
                   arrival>>

ConcurrentNext ==
    \/ \E t \in Threads, term \in Names, filter \in ConcurrentFilters,
          options \in ConcurrentOptions : QueryBegin(t, term, filter, options)
    \/ \E t \in Threads : QueryScan(t)
    \/ \E t \in Threads : QueryFinish(t)
    \/ \E t \in Threads, document \in ConcurrentInvoices : IndexBegin(t, document)
    \/ \E t \in Threads : IndexEnd(t)
    \/ \E t \in Threads : ThreadReturn(t)

SpecConcurrent == ConcurrentInit /\ [][ConcurrentNext]_vars

\* C14: with index and query calls issued concurrently on one shared engine,
\* an index call excludes every other index call and every query scan, the
\* store does not change under a scan, and every query returns what it returns
\* on the whole store it found (a store between two index calls, never a
\* partially updated one); queries may overlap one another.
C14_ReadersWriterExclusion ==
    \A t \in Threads :
        /\ calls[t].kind = "index" =>
              \A u \in Threads \ {t} : calls[u].kind \notin {"query", "index"}
        /\ calls[t].kind = "query" => index = calls[t].snapshot
        /\ (calls[t].kind = "returned" /\ calls[t].of = "query") =>
              calls[t].result =
                  query(calls[t].snapshot, calls[t].term, calls[t].filter,
                        calls[t].options, overflow_checks)

\* Two queries overlap, each in the middle of its scan of a store of two
\* entries, one of them with a match collected.
C14_Witness ==
    /\ Len(index) = 2
    /\ \A t \in Threads : calls[t].kind = "query" /\ calls[t].pos = 1
    /\ \E t \in Threads : Len(calls[t].list) = 1

====
